---- MODULE Spec2Model ----
(***************************************************************************)
(* State-machine model of ArucoTrackerNode (src/src/ArucoTracker.cpp):     *)
(* the constructor, distance_sensor_callback and image_callback, driven by *)
(* the single-threaded executor of rclcpp::spin.                           *)
(*                                                                         *)
(* Floating-point values are modelled as exact rationals extended with     *)
(* NaN, +Inf and -Inf (IEEE-754 rules for division and multiplication by   *)
(* zero and infinity); rounding and the finite range of float are not      *)
(* modelled.                                                               *)
(***************************************************************************)
EXTENDS Integers, Sequences, FiniteSets, TLC

(***************************************************************************)
(* Bounds of the model.                                                    *)
(***************************************************************************)
MaxFrames == 2        \* image messages delivered in one run
MaxMarkers == 2       \* markers the detector returns for one frame
MaxInterleaved == 1   \* distance messages handled during one frame's marker loop

(***************************************************************************)
(* float / double values.                                                  *)
(***************************************************************************)
RECURSIVE GCD(_, _)
GCD(a, b) == IF b = 0 THEN a ELSE GCD(b, a % b)

Abs(n) == IF n < 0 THEN -n ELSE n

\* the finite value n/d (d # 0), in lowest terms with a positive denominator
Fin(n, d) ==
    LET g == GCD(Abs(n), Abs(d))
        s == IF d < 0 THEN -1 ELSE 1
    IN  [k |-> "fin", n |-> (s * n) \div g, d |-> (s * d) \div g]

NaN == [k |-> "nan", n |-> 0, d |-> 1]
PInf == [k |-> "inf", n |-> 1, d |-> 1]
NInf == [k |-> "inf", n |-> -1, d |-> 1]
Zero == Fin(0, 1)

\* -1, 0 or 1 for a finite or infinite value
Sign(x) == IF x.n > 0 THEN 1 ELSE IF x.n < 0 THEN -1 ELSE 0

SignedInf(s) == IF s >= 0 THEN PInf ELSE NInf

\* a / b as IEEE-754 computes it (zeros are positive zeros)
FDiv(a, b) ==
    IF a.k = "nan" \/ b.k = "nan" THEN NaN
    ELSE IF a.k = "fin" /\ b.k = "fin" THEN
        IF b.n = 0
        THEN IF a.n = 0 THEN NaN ELSE SignedInf(Sign(a))
        ELSE Fin(a.n * b.d, a.d * b.n)
    ELSE IF a.k = "fin" THEN Zero
    ELSE IF b.k = "fin" THEN SignedInf(Sign(a) * (IF Sign(b) < 0 THEN -1 ELSE 1))
    ELSE NaN

\* a * b as IEEE-754 computes it
FMul(a, b) ==
    IF a.k = "nan" \/ b.k = "nan" THEN NaN
    ELSE IF a.k = "fin" /\ b.k = "fin" THEN Fin(a.n * b.n, a.d * b.d)
    ELSE IF Sign(a) = 0 \/ Sign(b) = 0 THEN NaN
    ELSE SignedInf(Sign(a) * Sign(b))

FNeg(a) == IF a.k = "nan" THEN NaN ELSE [a EXCEPT !.n = -a.n]

isnan(x) == x.k = "nan"
isinf(x) == x.k = "inf"

\* floor of the square root of s >= 0
RECURSIVE ISqrtFrom(_, _)
ISqrtFrom(s, r) == IF (r + 1) * (r + 1) > s THEN r ELSE ISqrtFrom(s, r + 1)

\* cv::norm of a 2-D point (L2); the corner sets of the model have integral norms
norm(p) == Fin(ISqrtFrom(p[1] * p[1] + p[2] * p[2], 0), 1)

PointSub(p, q) == <<p[1] - q[1], p[2] - q[2]>>

(***************************************************************************)
(* cv::Mat, as far as the node uses it.                                    *)
(***************************************************************************)
\* a default-constructed (empty) matrix
EmptyMat == [empty |-> TRUE, depth |-> "CV_8U", m00 |-> Zero, m11 |-> Zero]

\* a 3x3 intrinsic matrix with focal lengths fx = m(0,0) and fy = m(1,1)
Intrinsics(depth, fx, fy) ==
    [empty |-> FALSE, depth |-> depth, m00 |-> Fin(fx, 1), m11 |-> Fin(fy, 1)]

\* cv::Mat::convertTo: the same elements, stored with the requested depth
convertTo(m, depth) == [m EXCEPT !.depth = depth]

\* distortion coefficients: only their presence matters to the node
EmptyCoeffs == [empty |-> TRUE]
SomeCoeffs == [empty |-> FALSE]

(***************************************************************************)
(* What usb_cam_calib.yml may hold when the constructor reads it.          *)
(***************************************************************************)
\* the file as cv::FileStorage finds it: whether it opens and what its two nodes hold
CalibFile(opened, m, d) ==
    [opened |-> opened, camera_matrix |-> m, distortion_coefficients |-> d]

CalibSources ==
    { CalibFile(FALSE, EmptyMat, EmptyCoeffs),
      CalibFile(TRUE, EmptyMat, SomeCoeffs),
      CalibFile(TRUE, Intrinsics("CV_64F", 500, 250), EmptyCoeffs),
      CalibFile(TRUE, Intrinsics("CV_64F", 500, 250), SomeCoeffs),
      CalibFile(TRUE, Intrinsics("CV_32F", 500, 250), SomeCoeffs),
      CalibFile(TRUE, Intrinsics("CV_64F", 0, 0), SomeCoeffs) }

(***************************************************************************)
(* Distance-sensor readings (px4_msgs DistanceSensor.current_distance).    *)
(***************************************************************************)
AltSamples == { Fin(-1, 1), Zero, Fin(2, 1), PInf }

\* the in-class initialiser of _ground_distance
DefaultGroundDistance == 1

(***************************************************************************)
(* Markers as the detector reports them: an id and four corners in the     *)
(* order top-left, top-right, bottom-right, bottom-left.                   *)
(***************************************************************************)
MarkerIds == {1, 2, 3}

CornersOf(id) ==
    CASE id = 1 -> << <<100, 100>>, <<150, 100>>, <<150, 130>>, <<100, 130>> >>
      [] id = 2 -> << <<200, 100>>, <<250, 100>>, <<250, 130>>, <<200, 130>> >>
      [] OTHER  -> << <<300, 300>>, <<300, 300>>, <<320, 320>>, <<300, 320>> >>

\* How the library call cv::solvePnP ends for a marker's image points:
\* "ok" (returns true), "false" (returns false: no solution found) or
\* "throw" (raises cv::Exception).
PnPResult(imagePoints) ==
    CASE imagePoints = CornersOf(1) -> "ok"
      [] imagePoints = CornersOf(2) -> "throw"
      [] OTHER -> "false"

RECURSIVE SeqsUpTo(_, _)
SeqsUpTo(S, n) ==
    IF n = 0 THEN { <<>> }
    ELSE LET shorter == SeqsUpTo(S, n - 1)
         IN  shorter \cup { Append(q, x) : q \in { r \in shorter : Len(r) = n - 1 }, x \in S }

\* what a frame can show: the ids of the markers in it, in detection order
Scenes == SeqsUpTo(MarkerIds, MaxMarkers)

(***************************************************************************)
(* sensor_msgs Image messages.                                             *)
(***************************************************************************)
ColorEncodings == {"bgr8", "rgb8"}
OtherEncodings == {"32FC1"}

\* the frames that can arrive with header (timestamp) h; the content of a
\* frame that cannot be converted is never looked at
Frames(h) ==
    { [header |-> h, encoding |-> e, scene |-> s] : e \in ColorEncodings, s \in Scenes }
    \cup
    { [header |-> h, encoding |-> e, scene |-> <<>>] : e \in OtherEncodings }

NoMsg == [header |-> 0, encoding |-> "", scene |-> <<>>]

\* cv_bridge::toCvCopy(msg, target) can convert between colour encodings only
Convertible(from, to) == from \in ColorEncodings /\ to \in ColorEncodings

\* the image of a CvImage: the scene it shows and what has been drawn on it
BlankImage(scene) == [scene |-> scene, outlines |-> <<>>, axes |-> <<>>]

NoImage == [header |-> 0, encoding |-> "", image |-> BlankImage(<<>>)]

\* cv_bridge::toCvCopy: a copy of the message's image in the target encoding
toCvCopy(msg, target) ==
    [header |-> msg.header, encoding |-> target, image |-> BlankImage(msg.scene)]

(***************************************************************************)
(* State.                                                                  *)
(***************************************************************************)
VARIABLES
    proc,              \* "start" (main, before the node exists), "spinning", "crashed"
    _camera_matrix,    \* cv::Mat
    _dist_coeffs,      \* cv::Mat
    _ground_distance,  \* float
    _dictionary,       \* cv::Ptr<cv::aruco::Dictionary>: the dictionary's name, or "null"
    endpoints,         \* which of _image_sub, _distance_sub, _image_pub exist
    errlog,            \* the RCLCPP_ERROR messages, in order
    pc,                \* where image_callback stands; "idle" between callbacks
    loc,               \* the locals of the latest invocation of image_callback
    published,         \* header and encoding of the messages sent on /image_proc
    inputs,            \* history: per delivered frame, its encoding and fate
    written,           \* history: the last distance reading delivered
    lastGood,          \* history: the last non-negative distance reading delivered
    fresh              \* history: a reading came since image_callback last returned

vars == <<proc, _camera_matrix, _dist_coeffs, _ground_distance, _dictionary, endpoints,
          errlog, pc, loc, published, inputs, written, lastGood, fresh>>

node == <<_camera_matrix, _dist_coeffs, _ground_distance, _dictionary, endpoints>>

\* the locals of image_callback when it is entered with msg
Locals(msg) ==
    [ msg          |-> msg,
      cv_ptr       |-> NoImage,
      ids          |-> <<>>,
      corners      |-> <<>>,
      i            |-> 0,
      pixel_width  |-> Zero,
      marker_size  |-> Zero,
      estimates    |-> <<>>,    \* history: the size estimates of this frame
      solves       |-> <<>>,    \* history: the solvePnP calls of this frame
      snapshot     |-> Zero,    \* history: _ground_distance when the marker loop began
      interleaved  |-> 0 ]      \* history: distance messages handled during the loop

Init ==
    /\ proc = "start"
    /\ _camera_matrix = EmptyMat
    /\ _dist_coeffs = EmptyCoeffs
    /\ _ground_distance = Fin(DefaultGroundDistance, 1)
    /\ _dictionary = "null"
    /\ endpoints = {}
    /\ errlog = <<>>
    /\ pc = "idle"
    /\ loc = Locals(NoMsg)
    /\ published = <<>>
    /\ inputs = <<>>
    /\ written = Fin(DefaultGroundDistance, 1)
    /\ lastGood = Fin(DefaultGroundDistance, 1)
    /\ fresh = FALSE

(***************************************************************************)
(* ArucoTrackerNode::ArucoTrackerNode                                      *)
(***************************************************************************)
\* the subscriptions and the publisher the constructor sets up
CreatedEndpoints == {"_image_sub", "_distance_sub", "_image_pub"}

Constructor ==
    /\ proc = "start"
    /\ _dictionary' = "DICT_4X4_250"
    /\ \E fs \in CalibSources :
        LET cm == IF fs.opened THEN fs.camera_matrix ELSE _camera_matrix
            dc == IF fs.opened THEN fs.distortion_coefficients ELSE _dist_coeffs
            e1 == IF fs.opened THEN <<>>
                  ELSE <<"Failed to open camera calibration file">>
            e2 == IF cm.empty \/ dc.empty
                  THEN <<"Failed to load camera parameters correctly.">>
                  ELSE <<>>
        IN  /\ _camera_matrix' = convertTo(cm, "CV_64F")
            /\ _dist_coeffs' = dc
            /\ errlog' = errlog \o e1 \o e2
    /\ endpoints' = CreatedEndpoints
    /\ proc' = "spinning"
    /\ UNCHANGED <<_ground_distance, pc, loc, published, inputs, written, lastGood, fresh>>

(***************************************************************************)
(* ArucoTrackerNode::distance_sensor_callback                              *)
(***************************************************************************)
\* a callback that keeps the old value when the reading is negative
StoreDistance_RejectNegative(old, current_distance) ==
    IF current_distance.n < 0 THEN old ELSE current_distance

\* the value _ground_distance holds after a message with current_distance
StoreDistance(old, current_distance) == current_distance

\* a callback that also empties the distortion coefficients
distance_sensor_callback_ClearsCoeffs ==
    /\ proc = "spinning"
    /\ pc = "idle"
    /\ "_distance_sub" \in endpoints
    /\ \E current_distance \in AltSamples :
        /\ _ground_distance' = current_distance
        /\ written' = current_distance
        /\ lastGood' = IF current_distance.k = "fin" /\ current_distance.n >= 0
                       THEN current_distance ELSE lastGood
    /\ fresh' = TRUE
    /\ _dist_coeffs' = EmptyCoeffs
    /\ UNCHANGED <<proc, _camera_matrix, _dictionary, endpoints, errlog, pc, loc,
                   published, inputs>>

\* rclcpp::spin runs one callback at a time: no sample is handled while
\* image_callback is running
distance_sensor_callback ==
    /\ proc = "spinning"
    /\ pc = "idle"
    /\ "_distance_sub" \in endpoints
    /\ \E current_distance \in AltSamples :
        /\ _ground_distance' = StoreDistance(_ground_distance, current_distance)
        /\ written' = current_distance
        /\ lastGood' = IF current_distance.k = "fin" /\ current_distance.n >= 0
                       THEN current_distance ELSE lastGood
    /\ fresh' = TRUE
    /\ UNCHANGED <<proc, _camera_matrix, _dist_coeffs, _dictionary, endpoints, errlog,
                   pc, loc, published, inputs>>

(***************************************************************************)
(* ArucoTrackerNode::image_callback, one action per step.                  *)
(***************************************************************************)
\* a catch clause for cv::Exception instead of cv_bridge::Exception
Caught_OpenCVOnly(exception) == exception = "cv::Exception"

\* the catch clause of image_callback
Caught(exception) == exception = "cv_bridge::Exception"

\* image_callback returns: its locals are gone
Unwind ==
    /\ loc' = Locals(NoMsg)
    /\ fresh' = FALSE

\* An exception raised inside the try block, the locals being l: the handler
\* logs it and the callback returns; any other exception leaves the callback
\* and rclcpp::spin, nothing in main catches it, and the process terminates.
Throw(exception, l) ==
    IF Caught(exception)
    THEN /\ errlog' = Append(errlog, "cv_bridge exception")
         /\ pc' = "idle"
         /\ proc' = proc
         /\ Unwind
    ELSE /\ errlog' = errlog
         /\ pc' = "terminated"
         /\ proc' = "crashed"
         /\ loc' = l
         /\ fresh' = fresh

\* the encoding image_callback asks toCvCopy for
DecodeEncoding == "bgr8"

\* an output message that keeps the encoding field of the input message
OutEncoding_OfInput(msg) == msg.encoding

\* the encoding image_callback gives the output message
OutEncoding(msg) == "bgr8"

\* the header image_callback gives the output message
OutHeader(msg) == msg.header

\* the executor hands the next frame to image_callback
ImageArrives ==
    /\ proc = "spinning"
    /\ pc = "idle"
    /\ "_image_sub" \in endpoints
    /\ Len(inputs) < MaxFrames
    /\ \E msg \in Frames(Len(inputs) + 1) :
        /\ loc' = Locals(msg)
        /\ inputs' = Append(inputs, [encoding |-> msg.encoding, decoded |-> FALSE,
                                     cv_encoding |-> ""])
    /\ pc' = "toCvCopy"
    /\ UNCHANGED <<proc, node, errlog, published, written, lastGood, fresh>>

\* cv_bridge::toCvCopy(msg, BGR8)
Decode ==
    /\ pc = "toCvCopy"
    /\ IF Convertible(loc.msg.encoding, DecodeEncoding)
       THEN /\ loc' = [loc EXCEPT !.cv_ptr = toCvCopy(loc.msg, DecodeEncoding)]
            /\ inputs' = [inputs EXCEPT ![Len(inputs)].decoded = TRUE,
                                        ![Len(inputs)].cv_encoding = DecodeEncoding]
            /\ pc' = "detectMarkers"
            /\ UNCHANGED <<proc, errlog, fresh>>
       ELSE /\ Throw("cv_bridge::Exception", loc)
            /\ UNCHANGED inputs
    /\ UNCHANGED <<node, published, written, lastGood>>

\* cv::aruco::detectMarkers: ids and corners of the markers the image shows
detectMarkers(image) == [ids |-> image.scene,
                         corners |-> [k \in 1..Len(image.scene) |-> CornersOf(image.scene[k])]]

\* cv::aruco::drawDetectedMarkers
drawDetectedMarkers(image, corners, ids) == [image EXCEPT !.outlines = ids]

\* detectMarkers, and drawDetectedMarkers when there are ids
Detect ==
    /\ pc = "detectMarkers"
    /\ LET found == detectMarkers(loc.cv_ptr.image)
       IN  IF Len(found.ids) > 0
           THEN /\ loc' = [loc EXCEPT !.ids = found.ids,
                                      !.corners = found.corners,
                                      !.cv_ptr.image =
                                          drawDetectedMarkers(@, found.corners, found.ids),
                                      !.i = 1,
                                      !.snapshot = _ground_distance]
                /\ pc' = "estimate"
           ELSE /\ loc' = [loc EXCEPT !.ids = found.ids, !.corners = found.corners]
                /\ pc' = "publish"
    /\ UNCHANGED <<proc, node, errlog, published, inputs, written, lastGood, fresh>>

\* cv::norm(corners[i][0] - corners[i][1])
PixelWidth(c) == norm(PointSub(c[1], c[2]))

\* values a read outside a matrix's data may yield when it does not fault
WildReads == { Zero, Fin(500, 1) }

\* _camera_matrix.at<double>(0, 0): the element when the matrix holds doubles;
\* on an empty matrix, or one of another depth, the read is undefined: it
\* faults or yields some value
At00(m) ==
    IF m.empty \/ m.depth # "CV_64F"
    THEN { [fault |-> TRUE, value |-> Zero] }
         \cup { [fault |-> FALSE, value |-> v] : v \in WildReads }
    ELSE { [fault |-> FALSE, value |-> m.m00] }

\* a size estimate that leaves the ground distance out
MarkerSize_NoDistance(pixel_width, focal, ground_distance) == FDiv(pixel_width, focal)

\* a distance taken once, when the marker loop begins
DistanceRead_Snapshot(l) == l.snapshot

\* _ground_distance as line 90 reads it, for marker l.i
DistanceRead(l) == _ground_distance

\* a size estimate that leaves the distance out until a frame has been published
MarkerSize_WarmUp(pixel_width, focal, ground_distance) ==
    IF Len(published) = 0
    THEN FDiv(pixel_width, focal)
    ELSE FMul(FDiv(pixel_width, focal), ground_distance)

\* (pixel_width / focal) * _ground_distance
MarkerSize(pixel_width, focal, ground_distance) ==
    FMul(FDiv(pixel_width, focal), ground_distance)

\* a guard that tests for NaN only
SizeUsable_NaNOnly(marker_size) == ~isnan(marker_size)

\* a guard that also asks for a positive size
SizeUsable_PositiveOnly(marker_size) ==
    ~isnan(marker_size) /\ ~isinf(marker_size) /\ marker_size.n > 0

\* !std::isnan(marker_size) && !std::isinf(marker_size)
SizeUsable(marker_size) == ~isnan(marker_size) /\ ~isinf(marker_size)

\* a loop that is left after its first pass
AfterMarker_Break(l) == "publish"

\* the loop header after the body has run for loc.i
AfterMarker(l) == IF l.i + 1 <= Len(l.ids) THEN "estimate" ELSE "publish"

\* pixel_width, marker_size and the guard on marker_size, for marker loc.i
EstimateSize ==
    /\ pc = "estimate"
    /\ LET pw == PixelWidth(loc.corners[loc.i])
       IN  \E r \in At00(_camera_matrix) :
            LET ms == MarkerSize(pw, r.value, DistanceRead(loc))
                est == [i |-> loc.i, pixel_width |-> pw, fault |-> r.fault,
                        focal |-> r.value, altitude |-> DistanceRead(loc),
                        written |-> written,
                        marker_size |-> IF r.fault THEN NaN ELSE ms]
            IN  IF r.fault
                THEN /\ loc' = [loc EXCEPT !.pixel_width = pw,
                                           !.estimates = Append(@, est)]
                     /\ pc' = "terminated"
                     /\ proc' = "crashed"
                ELSE /\ proc' = proc
                     /\ IF SizeUsable(ms)
                        THEN /\ loc' = [loc EXCEPT !.pixel_width = pw,
                                                   !.marker_size = ms,
                                                   !.estimates = Append(@, est)]
                             /\ pc' = "solvePnP"
                        ELSE /\ loc' = [loc EXCEPT !.pixel_width = pw,
                                                   !.marker_size = ms,
                                                   !.estimates = Append(@, est),
                                                   !.i = @ + 1]
                             /\ pc' = AfterMarker(loc)
    /\ UNCHANGED <<node, errlog, published, inputs, written, lastGood, fresh>>

\* the four object points built from marker_size
ObjectPoints(marker_size) ==
    LET halfSize == FDiv(marker_size, Fin(2, 1))
    IN  << <<FNeg(halfSize), halfSize, Zero>>,
           <<halfSize, halfSize, Zero>>,
           <<halfSize, FNeg(halfSize), Zero>>,
           <<FNeg(halfSize), FNeg(halfSize), Zero>> >>

\* an axis of one fixed length for every marker
drawAxis_UnitLength(image, i, id, solved, length) ==
    [image EXCEPT !.axes = Append(@, [i |-> i, id |-> id, solved |-> solved,
                                      length |-> Fin(1, 1)])]

\* cv::aruco::drawAxis: an axis of the given length for marker i; rvec and
\* tvec hold a solution only when solvePnP returned true
drawAxis(image, i, id, solved, length) ==
    [image EXCEPT !.axes = Append(@, [i |-> i, id |-> id, solved |-> solved,
                                      length |-> length])]

\* objectPoints, cv::solvePnP and cv::aruco::drawAxis, for marker loc.i
SolvePose ==
    /\ pc = "solvePnP"
    /\ LET objectPoints == ObjectPoints(loc.marker_size)
           result == PnPResult(loc.corners[loc.i])
           call == [i |-> loc.i, id |-> loc.ids[loc.i], marker_size |-> loc.marker_size,
                    objectPoints |-> objectPoints, result |-> result]
       IN  IF result = "throw"
           THEN Throw("cv::Exception", [loc EXCEPT !.solves = Append(@, call)])
           ELSE /\ loc' = [loc EXCEPT !.solves = Append(@, call),
                                      !.cv_ptr.image =
                                          drawAxis(@, loc.i, loc.ids[loc.i],
                                                   result = "ok", loc.marker_size),
                                      !.i = @ + 1]
                /\ pc' = AfterMarker(loc)
                /\ UNCHANGED <<proc, errlog, fresh>>
    /\ UNCHANGED <<node, published, inputs, written, lastGood>>

\* out_msg and _image_pub->publish
Publish ==
    /\ pc = "publish"
    /\ "_image_pub" \in endpoints
    /\ LET out_msg == [header |-> OutHeader(loc.msg),
                       encoding |-> OutEncoding(loc.msg),
                       image |-> loc.cv_ptr.image]
       IN  published' = Append(published, [header |-> out_msg.header,
                                              encoding |-> out_msg.encoding])
    /\ pc' = "idle"
    /\ Unwind
    /\ UNCHANGED <<proc, node, errlog, inputs, written, lastGood>>

image_callback ==
    \/ ImageArrives
    \/ Decode
    \/ Detect
    \/ EstimateSize
    \/ SolvePose
    \/ Publish

Next ==
    \/ Constructor
    \/ distance_sensor_callback
    \/ image_callback

Spec == Init /\ [][Next]_vars

(***************************************************************************)
(* The two subscriptions served in parallel: distance_sensor_callback may  *)
(* run between any two steps of the marker loop of image_callback (lines   *)
(* 88-108), up to MaxInterleaved times per frame.  rclcpp::spin does not   *)
(* do this; it is the delivery under which a per-frame snapshot of the     *)
(* distance would differ from the per-marker read of line 90.  The write   *)
(* and the read of the float are taken to be atomic.                       *)
(***************************************************************************)
DistanceInterleaves ==
    /\ proc = "spinning"
    /\ pc \in {"estimate", "solvePnP"}
    /\ loc.interleaved < MaxInterleaved
    /\ "_distance_sub" \in endpoints
    /\ \E current_distance \in AltSamples :
        /\ _ground_distance' = StoreDistance(_ground_distance, current_distance)
        /\ written' = current_distance
        /\ lastGood' = IF current_distance.k = "fin" /\ current_distance.n >= 0
                       THEN current_distance ELSE lastGood
    /\ fresh' = TRUE
    /\ loc' = [loc EXCEPT !.interleaved = @ + 1]
    /\ UNCHANGED <<proc, _camera_matrix, _dist_coeffs, _dictionary, endpoints, errlog,
                   pc, published, inputs>>

NextInterleaved ==
    \/ Next
    \/ DistanceInterleaves

SpecInterleaved == Init /\ [][NextInterleaved]_vars

(***************************************************************************)
(* Vocabulary of the properties.                                           *)
(***************************************************************************)
PublishedHeaders == { published[k].header : k \in 1..Len(published) }

\* image_callback is not working on a frame: it has returned, or the process died
CallbackOver == pc \in {"idle", "terminated"}

\* the constructor has run and found both calibration matrices
Calibrated == proc # "start" /\ ~_camera_matrix.empty /\ ~_dist_coeffs.empty

\* the constructor has run and logged that the camera parameters were not loaded
CalibrationFailed == proc # "start" /\ (_camera_matrix.empty \/ _dist_coeffs.empty)

IsFinite(x) == x.k = "fin"

(***************************************************************************)
(* C1: every frame whose decode succeeds is published, whatever the        *)
(* markers detected in it and whatever the outcome of each marker's size   *)
(* estimate and pose solve.  Stated for a node whose calibration loaded:   *)
(* once image_callback is over for a frame, each decoded frame has been    *)
(* published.                                                              *)
(***************************************************************************)
C1_DecodedFrameIsPublished ==
    (Calibrated /\ CallbackOver) =>
        \A h \in 1..Len(inputs) : inputs[h].decoded => h \in PublishedHeaders

(***************************************************************************)
(* C2: when the pose solve of a marker A fails (solvePnP throws or finds   *)
(* no solution), every other marker B of the frame that has a finite size  *)
(* estimate and a solvable pose is overlaid in the frame that is           *)
(* published, and the node goes on to later frames; A may stand before or  *)
(* after B.  Stated for a node whose calibration loaded, at the end of the *)
(* marker loop.                                                            *)
(***************************************************************************)
C2_FailureOfOneMarkerSparesTheOthers ==
    (Calibrated /\ pc \in {"publish", "terminated"}) =>
        \A a, b \in 1..Len(loc.ids) :
            ( /\ a # b
              /\ \E k \in 1..Len(loc.solves) :
                    loc.solves[k].i = a /\ loc.solves[k].result # "ok"
              /\ IsFinite(MarkerSize(PixelWidth(loc.corners[b]), _camera_matrix.m00,
                                     _ground_distance))
              /\ PnPResult(loc.corners[b]) = "ok" )
            => /\ proc = "spinning"
               /\ pc = "publish"
               /\ \E k \in 1..Len(loc.cv_ptr.image.axes) :
                    loc.cv_ptr.image.axes[k].i = b /\ loc.cv_ptr.image.axes[k].solved

(***************************************************************************)
(* C3: after a failed calibration load no size estimate reads the          *)
(* intrinsic matrix and solvePnP is not called for any marker.             *)
(***************************************************************************)
C3_NoPoseEstimationWithoutCalibration ==
    CalibrationFailed => (loc.estimates = <<>> /\ loc.solves = <<>>)

(***************************************************************************)
(* C4: a failed calibration load is not fatal: the subscriptions and the   *)
(* publisher exist, the process keeps running, every decoded frame is      *)
(* published, and the frame that is published carries the outline of       *)
(* every detected marker.                                                  *)
(***************************************************************************)
C4_DetectOnlyModeAfterFailedLoad ==
    CalibrationFailed =>
        /\ endpoints = CreatedEndpoints
        /\ proc = "spinning"
        /\ CallbackOver =>
              \A h \in 1..Len(inputs) : inputs[h].decoded => h \in PublishedHeaders
        /\ pc = "publish" => loc.cv_ptr.image.outlines = loc.ids

(***************************************************************************)
(* C5: _ground_distance always holds the last non-negative reading that    *)
(* was delivered (the initial value when there was none): a negative or    *)
(* out-of-range reading is dropped.                                        *)
(***************************************************************************)
C5_AltitudeIsLastGoodReading == _ground_distance = lastGood

(***************************************************************************)
(* C6: solvePnP is never called with a marker_size that is NaN or          *)
(* infinite; with a focal length of 0 in the intrinsic matrix every        *)
(* estimate (any pixel width >= 0, any ground distance, 0 included) is     *)
(* NaN or infinite and its marker is skipped.                              *)
(***************************************************************************)
C6_SolverNeverGetsNaNOrInf ==
    /\ \A k \in 1..Len(loc.solves) : IsFinite(loc.solves[k].marker_size)
    /\ pc = "solvePnP" => IsFinite(loc.marker_size)
    /\ \A k \in 1..Len(loc.estimates) :
        LET e == loc.estimates[k]
        IN  (~e.fault /\ e.focal = Zero) =>
                /\ ~IsFinite(e.marker_size)
                /\ ~(pc = "solvePnP" /\ loc.i = e.i)
                /\ \A j \in 1..Len(loc.solves) : loc.solves[j].i # e.i

\* a frame with two markers (pixel widths 50 and 0) went through the loop with
\* focal length 0 and ground distance 0, and is about to be published
C6_Witness ==
    /\ ~_camera_matrix.empty
    /\ _camera_matrix.m00 = Zero
    /\ _ground_distance = Zero
    /\ pc = "publish"
    /\ Len(loc.estimates) = 2
    /\ loc.estimates[1].pixel_width = Fin(50, 1)
    /\ loc.estimates[2].pixel_width = Zero
    /\ loc.solves = <<>>

(***************************************************************************)
(* C7: every size estimate uses the ground distance carried by the last    *)
(* distance message delivered before it, also when that message came       *)
(* between the previous frame and this one.                                *)
(***************************************************************************)
C7_EstimateUsesLastDeliveredDistance ==
    \A k \in 1..Len(loc.estimates) : loc.estimates[k].altitude = loc.estimates[k].written

\* the second frame is being processed, a reading of 2 came after the first
\* frame's callback returned, and both markers of the frame were estimated
C7_Witness ==
    /\ Len(inputs) = 2
    /\ fresh
    /\ written = Fin(2, 1)
    /\ Len(loc.estimates) = 2
    /\ \A k \in 1..2 : ~loc.estimates[k].fault /\ loc.estimates[k].altitude = Fin(2, 1)

(***************************************************************************)
(* C8: when a frame cannot be decoded, the step that fails logs the        *)
(* cv_bridge exception and ends the callback: nothing is published, no     *)
(* detection, estimate or solve runs for the frame, the ground distance,   *)
(* the calibration and the endpoints are unchanged, and the node is idle   *)
(* and running, ready for the next frame.                                  *)
(***************************************************************************)
C8_DecodeFailureDropsOnlyTheFrame ==
    [][ (pc = "toCvCopy" /\ loc.msg.encoding \notin ColorEncodings) =>
            /\ errlog' = Append(errlog, "cv_bridge exception")
            /\ published' = published
            /\ pc' = "idle"
            /\ proc' = "spinning"
            /\ loc'.ids = <<>> /\ loc'.estimates = <<>> /\ loc'.solves = <<>>
            /\ ~inputs'[Len(inputs')].decoded
            /\ UNCHANGED <<_ground_distance, _camera_matrix, _dist_coeffs, endpoints>>
      ]_vars

\* the first frame was dropped by a decode failure and the second frame,
\* with a marker in it, has been published
C8_Witness ==
    /\ Len(inputs) = 2
    /\ inputs[1].encoding \notin ColorEncodings
    /\ ~inputs[1].decoded
    /\ inputs[2].decoded
    /\ published = <<[header |-> 2, encoding |-> "bgr8"]>>
    /\ errlog # <<>> /\ errlog[Len(errlog)] = "cv_bridge exception"
    /\ pc = "idle" /\ proc = "spinning"

(***************************************************************************)
(* C9 as stated: every published message belongs to one decoded input      *)
(* frame, has that frame's header and the encoding of that input frame;    *)
(* there are no more publishes than decoded frames and the publishes       *)
(* follow the order of the frames.                                         *)
(***************************************************************************)
C9_OutputKeepsInputEncoding ==
    /\ \A k \in 1..Len(published) :
        LET h == published[k].header
        IN  /\ h \in 1..Len(inputs)
            /\ inputs[h].decoded
            /\ published[k].encoding = inputs[h].encoding
            /\ \A j \in 1..(k - 1) : published[j].header < h
    /\ Len(published) <= Cardinality({ h \in 1..Len(inputs) : inputs[h].decoded })

(***************************************************************************)
(* C9 as amended: every published message belongs to one decoded input     *)
(* frame, has that frame's header and the encoding the frame was decoded   *)
(* to, which is BGR8 whatever the encoding of the input message; there are *)
(* no more publishes than decoded frames and the publishes follow the      *)
(* order of the frames.                                                    *)
(***************************************************************************)
C9_OutputKeepsHeaderAndDecodedEncoding ==
    /\ \A k \in 1..Len(published) :
        LET h == published[k].header
        IN  /\ h \in 1..Len(inputs)
            /\ inputs[h].decoded
            /\ published[k].encoding = inputs[h].cv_encoding
            /\ published[k].encoding = "bgr8"
            /\ \A j \in 1..(k - 1) : published[j].header < h
    /\ Len(published) <= Cardinality({ h \in 1..Len(inputs) : inputs[h].decoded })

\* the first frame was dropped and the second, an rgb8 frame, was published
C9_Witness ==
    /\ Len(inputs) = 2
    /\ ~inputs[1].decoded
    /\ inputs[2].encoding = "rgb8"
    /\ Len(published) = 1
    /\ published[1].header = 2
    /\ pc = "idle"

(***************************************************************************)
(* C10: for a marker with pixel width > 0, a focal length > 0 and a        *)
(* ground distance > 0 (both finite), pixel_width is the distance between  *)
(* the marker's first two corners, the focal length is entry (0,0) of the  *)
(* intrinsic matrix, marker_size is finite, positive and equal to          *)
(* (pixel_width / focal) * distance, and the object points of its pose     *)
(* solve are the square (+-h, +-h, 0) with h = marker_size / 2; ground     *)
(* distance 2, pixel width 50 and focal length 500 give 1/5 and h = 1/10.  *)
(***************************************************************************)
C10_SizeEstimateFormula ==
    \A k \in 1..Len(loc.estimates) :
        LET e == loc.estimates[k]
            c == loc.corners[e.i]
            dx == c[2][1] - c[1][1]
            dy == c[2][2] - c[1][2]
            size == e.marker_size
        IN  ( /\ ~e.fault
              /\ ~_camera_matrix.empty
              /\ dx * dx + dy * dy > 0
              /\ IsFinite(_camera_matrix.m00) /\ _camera_matrix.m00.n > 0
              /\ IsFinite(e.altitude) /\ e.altitude.n > 0 )
            => /\ IsFinite(e.pixel_width) /\ e.pixel_width.d = 1
               /\ e.pixel_width.n * e.pixel_width.n = dx * dx + dy * dy
               /\ e.focal = _camera_matrix.m00
               /\ IsFinite(size) /\ size.n > 0
               /\ size.n * e.focal.n * e.altitude.d
                    = e.pixel_width.n * e.focal.d * e.altitude.n * size.d
               /\ ( e.altitude = Fin(2, 1) /\ e.pixel_width = Fin(50, 1)
                    /\ e.focal = Fin(500, 1) ) => size = Fin(1, 5)
               /\ \A j \in 1..Len(loc.solves) :
                    LET s == loc.solves[j]
                        h == s.objectPoints[2][1]
                    IN  s.i = e.i =>
                          /\ s.marker_size = size
                          /\ IsFinite(h) /\ 2 * h.n * size.d = size.n * h.d
                          /\ s.objectPoints = << <<FNeg(h), h, Zero>>, <<h, h, Zero>>,
                                                 <<h, FNeg(h), Zero>>,
                                                 <<FNeg(h), FNeg(h), Zero>> >>

\* ground distance 2, pixel width 50, focal length 500: marker_size 1/5, the
\* object points at +-1/10, the pose solved and the axis drawn
C10_Witness ==
    /\ Len(loc.estimates) = 1
    /\ loc.estimates[1].altitude = Fin(2, 1)
    /\ loc.estimates[1].pixel_width = Fin(50, 1)
    /\ loc.estimates[1].focal = Fin(500, 1)
    /\ loc.estimates[1].marker_size = Fin(1, 5)
    /\ Len(loc.solves) = 1
    /\ loc.solves[1].objectPoints[1] = <<Fin(-1, 10), Fin(1, 10), Zero>>
    /\ loc.solves[1].result = "ok"
    /\ Len(loc.cv_ptr.image.axes) = 1
    /\ loc.cv_ptr.image.axes[1].length = Fin(1, 5)
    /\ pc = "publish"

SceneSize(scene, k, focal, ground_distance) ==
    LET c == CornersOf(scene[k])
    IN  FMul(FDiv(norm(PointSub(c[1], c[2])), focal), ground_distance)

(***************************************************************************)
(* C12: what image_callback computes for a frame is a function of the      *)
(* frame, of the ground distance and of the focal length read from the     *)
(* camera matrix, and of nothing else: the ids, corners and outlines are   *)
(* those of the frame's scene, every size estimate is the scene's pixel    *)
(* width over the focal length times the distance, the solved markers are  *)
(* exactly those with a finite size, in order, each with the solver result *)
(* of its own corners, and the axes are those of the solved markers.  So   *)
(* the same frame with the same distance gives the same results whatever   *)
(* frames were processed before it.                                        *)
(***************************************************************************)
C12_ResultsDependOnFrameAndDistanceOnly ==
    LET scene == loc.msg.scene
        size(k) == SceneSize(scene, k, loc.estimates[k].focal, _ground_distance)
        posed == SelectSeq([k \in 1..Len(loc.estimates) |-> k],
                           LAMBDA k : ~loc.estimates[k].fault /\ IsFinite(size(k)))
        solving == IF pc = "solvePnP" THEN 1 ELSE 0
        thrown == IF pc = "terminated" /\ Len(loc.solves) > 0
                     /\ loc.solves[Len(loc.solves)].result = "throw" THEN 1 ELSE 0
    IN  /\ pc \in {"estimate", "solvePnP", "publish", "terminated"} =>
            /\ loc.ids = scene
            /\ loc.corners = [k \in 1..Len(scene) |-> CornersOf(scene[k])]
            /\ loc.cv_ptr.image.scene = scene
            /\ loc.cv_ptr.image.outlines = scene
        /\ pc = "publish" => Len(loc.estimates) = Len(scene)
        /\ \A k \in 1..Len(loc.estimates) :
            LET e == loc.estimates[k]
            IN  /\ e.i = k
                /\ ~_camera_matrix.empty => ~e.fault /\ e.focal = _camera_matrix.m00
                /\ ~e.fault => e.marker_size = size(k)
        /\ Len(loc.solves) = Len(posed) - solving
        /\ \A j \in 1..Len(loc.solves) :
            loc.solves[j] = [i |-> posed[j], id |-> scene[posed[j]],
                             marker_size |-> size(posed[j]),
                             objectPoints |-> ObjectPoints(size(posed[j])),
                             result |-> PnPResult(CornersOf(scene[posed[j]]))]
        /\ Len(loc.cv_ptr.image.axes) = Len(loc.solves) - thrown
        /\ \A j \in 1..Len(loc.cv_ptr.image.axes) :
            loc.cv_ptr.image.axes[j] =
                [i |-> posed[j], id |-> scene[posed[j]],
                 solved |-> (PnPResult(CornersOf(scene[posed[j]])) = "ok"),
                 length |-> size(posed[j])]

\* the second frame at the end of its loop, after a first frame was published:
\* two markers sized and solved from this frame and the distance 2 alone
C12_Witness ==
    /\ Len(inputs) = 2
    /\ Len(published) = 1
    /\ pc = "publish"
    /\ ~_camera_matrix.empty
    /\ _ground_distance = Fin(2, 1)
    /\ loc.msg.scene = <<1, 3>>
    /\ Len(loc.solves) = 2
    /\ Len(loc.cv_ptr.image.axes) = 2
    /\ loc.cv_ptr.image.axes[1].length = Fin(1, 5)
    /\ loc.cv_ptr.image.axes[2].length = Zero

C14_GuardRejectsOnlyNaNAndInf ==
    \A k \in 1..Len(loc.estimates) :
        LET e == loc.estimates[k]
            half == FDiv(e.marker_size, Fin(2, 1))
            atCall == pc = "solvePnP" /\ loc.i = e.i /\ loc.marker_size = e.marker_size
            called == \E j \in 1..Len(loc.solves) :
                        /\ loc.solves[j].i = e.i
                        /\ loc.solves[j].marker_size = e.marker_size
                        /\ loc.solves[j].objectPoints =
                                << <<FNeg(half), half, Zero>>, <<half, half, Zero>>,
                                   <<half, FNeg(half), Zero>>, <<FNeg(half), FNeg(half), Zero>> >>
        IN  ~e.fault =>
                /\ IsFinite(e.marker_size) <=> (atCall \/ called)
                /\ ~(atCall /\ called)

\* a frame taken at distance -1 with calibration loaded: the first marker's
\* estimate is negative and its object points are mirrored, the second has
\* coincident top corners, estimate zero and object points in one point;
\* solvePnP was called for both
C14_Witness ==
    /\ ~_camera_matrix.empty
    /\ _ground_distance = Fin(-1, 1)
    /\ pc = "publish"
    /\ Len(loc.estimates) = 2
    /\ loc.estimates[1].marker_size = Fin(-1, 10)
    /\ loc.estimates[2].marker_size = Zero
    /\ Len(loc.solves) = 2
    /\ loc.solves[1].objectPoints[2] = <<Fin(-1, 20), Fin(-1, 20), Zero>>
    /\ loc.solves[1].objectPoints[4] = <<Fin(1, 20), Fin(1, 20), Zero>>
    /\ \A p \in 1..4 : loc.solves[2].objectPoints[p] = <<Zero, Zero, Zero>>

\* what has been drawn on the frame in work agrees with the steps taken so far
OverlaysFollowTheSteps ==
    LET est == loc.estimates
        sol == loc.solves
        ax == loc.cv_ptr.image.axes
    IN  /\ (pc \in {"estimate", "solvePnP"} \/ Len(est) > 0) =>
                Len(loc.ids) > 0 /\ loc.cv_ptr.image.outlines = loc.ids
        /\ \A k \in 1..Len(est) : est[k].i = k
        /\ \A k \in 1..(Len(est) - 1) :
                (~est[k].fault /\ IsFinite(est[k].marker_size)) =>
                    \E j \in 1..Len(ax) : ax[j].i = k
        /\ \A j \in 1..Len(sol) :
                /\ sol[j].i <= Len(est)
                /\ sol[j].marker_size = est[sol[j].i].marker_size
                /\ sol[j].id = loc.ids[sol[j].i]
                /\ j < Len(sol) => sol[j].i < sol[j + 1].i
                /\ sol[j].result # "throw" <=> j <= Len(ax)
        /\ Len(ax) <= Len(sol)
        /\ \A j \in 1..Len(ax) :
                ax[j] = [i |-> sol[j].i, id |-> sol[j].id,
                         solved |-> (sol[j].result = "ok"),
                         length |-> sol[j].marker_size]

\* the marker loop of the frame in work is over and nothing is left to draw
ReadyToPublish ==
    /\ pc = "publish"
    /\ loc.cv_ptr.image.outlines = loc.ids
    /\ Len(loc.estimates) = Len(loc.ids)
    /\ \A k \in 1..Len(loc.ids) :
            (~loc.estimates[k].fault /\ IsFinite(loc.estimates[k].marker_size))
                <=> \E j \in 1..Len(loc.cv_ptr.image.axes) : loc.cv_ptr.image.axes[j].i = k

C16_CallbacksKeepToTheirOwnState ==
    [][ /\ image_callback =>
            UNCHANGED <<_ground_distance, written, lastGood,
                        _camera_matrix, _dist_coeffs, _dictionary, endpoints>>
        /\ distance_sensor_callback =>
            UNCHANGED <<_camera_matrix, _dist_coeffs, _dictionary, endpoints,
                        published, errlog, inputs, pc, loc, proc>>
        /\ proc # "start" =>
            UNCHANGED <<_camera_matrix, _dist_coeffs, _dictionary>> ]_vars

\* a frame was processed and published, then a reading of 2 was stored;
\* calibration and dictionary are those the constructor left
C16_Witness ==
    /\ Calibrated
    /\ _camera_matrix.m00 = Fin(500, 1)
    /\ _dictionary = "DICT_4X4_250"
    /\ pc = "idle"
    /\ Len(published) = 1
    /\ fresh
    /\ _ground_distance = Fin(2, 1)

====
